---- MODULE Spec2Model ----
(***************************************************************************)
(* State-machine model of coverart_jni.cpp: the two JNI entry points       *)
(* embedMetadata (top-level atom scan, ilst editing, two-pass rewrite) and *)
(* defragmentFile (pass-through copy).                                     *)
(*                                                                         *)
(* Streams are sequences of bytes (0..255).  AP4_UI32 values are 4-digit   *)
(* and AP4_UI64 values 8-digit big-endian base-256 sequences, exactly the  *)
(* bytes ReadUI32 / ReadUI64 take from the stream, so that 64-bit          *)
(* arithmetic (pos += atomSize, remaining -= toRead) keeps its width.      *)
(***************************************************************************)
EXTENDS Integers, Sequences, FiniteSets, TLC

\* ------------------------------------------------------------------ bounds
\* Cap on the number of entries the scan loop may push (the loop itself has
\* no cap).
MaxAtoms == 5
\* Number of input reads the environment may fail with an I/O error.
MaxFaults == 1
\* Number of embedMetadata calls chained output -> input.
MaxRuns == 2
\* Chunk of the raw copy in embedMetadata.  The source uses 65536 (line 216);
\* the model scales the chunk down so that short streams take several chunks.
bufferSize == 8
\* Chunk of the copy in defragmentFile.  The source uses 4096 (line 312).
defragBufferSize == 16

\* ------------------------------------------------------- fixed-width integers
Zero4 == <<0, 0, 0, 0>>

\* Big-endian AP4_UI32 of a natural number below 2^31.
U32(n) ==
    <<(n \div 16777216) % 256, (n \div 65536) % 256, (n \div 256) % 256, n % 256>>

\* AP4_UI64 atomSize = atomSizeSmall (zero extension).
Widen(w) == Zero4 \o w

\* AP4_UI64 of a natural number below 2^31.
U64(n) == Widen(U32(n))

\* A 64-bit value below 2^24, and its value as a natural number.
IsSmall(x) == \A i \in 1..5 : x[i] = 0
ToNat(x) == x[6] * 65536 + x[7] * 256 + x[8]

\* a < b on AP4_UI64.
U64Less(a, b) ==
    \E i \in 1..8 : a[i] < b[i] /\ \A j \in 1..(i - 1) : a[j] = b[j]

RECURSIVE Carry(_, _, _)
\* Carry into digit i of a + b.
Carry(a, b, i) ==
    IF i = 8 THEN 0 ELSE (a[i + 1] + b[i + 1] + Carry(a, b, i + 1)) \div 256

\* a + b on AP4_UI64 (wraps modulo 2^64).
U64Add(a, b) ==
    <<(a[1] + b[1] + Carry(a, b, 1)) % 256, (a[2] + b[2] + Carry(a, b, 2)) % 256,
      (a[3] + b[3] + Carry(a, b, 3)) % 256, (a[4] + b[4] + Carry(a, b, 4)) % 256,
      (a[5] + b[5] + Carry(a, b, 5)) % 256, (a[6] + b[6] + Carry(a, b, 6)) % 256,
      (a[7] + b[7] + Carry(a, b, 7)) % 256, (a[8] + b[8] + Carry(a, b, 8)) % 256>>

RECURSIVE Borrow(_, _, _)
\* Borrow out of digit i + 1 of a - b.
Borrow(a, b, i) ==
    IF i = 8 THEN 0
    ELSE IF a[i + 1] - b[i + 1] - Borrow(a, b, i + 1) < 0 THEN 1 ELSE 0

\* a - b on AP4_UI64 (wraps modulo 2^64).
U64Sub(a, b) ==
    <<(256 + a[1] - b[1] - Borrow(a, b, 1)) % 256, (256 + a[2] - b[2] - Borrow(a, b, 2)) % 256,
      (256 + a[3] - b[3] - Borrow(a, b, 3)) % 256, (256 + a[4] - b[4] - Borrow(a, b, 4)) % 256,
      (256 + a[5] - b[5] - Borrow(a, b, 5)) % 256, (256 + a[6] - b[6] - Borrow(a, b, 6)) % 256,
      (256 + a[7] - b[7] - Borrow(a, b, 7)) % 256, (256 + a[8] - b[8] - Borrow(a, b, 8)) % 256>>

\* ------------------------------------------------------------------ atom types
AP4_ATOM_TYPE_MOOV == <<109, 111, 111, 118>>
AP4_ATOM_TYPE_UDTA == <<117, 100, 116, 97>>
AP4_ATOM_TYPE_META == <<109, 101, 116, 97>>
AP4_ATOM_TYPE_ILST == <<105, 108, 115, 116>>
AP4_ATOM_TYPE_HDLR == <<104, 100, 108, 114>>
AP4_ATOM_TYPE_DATA == <<100, 97, 116, 97>>
AP4_ATOM_TYPE_cNAM == <<169, 110, 97, 109>>
AP4_ATOM_TYPE_cART == <<169, 65, 82, 84>>
AP4_ATOM_TYPE_cALB == <<169, 97, 108, 98>>
AP4_ATOM_TYPE_cDAY == <<169, 100, 97, 121>>
AP4_ATOM_TYPE_COVR == <<99, 111, 118, 114>>
AP4_HANDLER_TYPE_MDIR == <<109, 100, 105, 114>>
TYPE_FTYP == <<102, 116, 121, 112>>
TYPE_MDAT == <<109, 100, 97, 116>>
TYPE_MOOF == <<109, 111, 111, 102>>
TYPE_FREE == <<102, 114, 101, 101>>
TYPE_MVHD == <<109, 118, 104, 100>>

\* ------------------------------------------------------------- atom tree model
\* An atom: a container (children) or a leaf (raw payload); "full" holds the
\* version/flags bytes of a full atom (meta), empty otherwise.
Leaf(type, payload) ==
    [type |-> type, full |-> <<>>, container |-> FALSE, kids |-> <<>>, payload |-> payload]

\* new AP4_ContainerAtom(type)
Container(type, kids) ==
    [type |-> type, full |-> <<>>, container |-> TRUE, kids |-> kids, payload |-> <<>>]

\* new AP4_ContainerAtom(type, version, flags): a full container atom.
FullContainer(type, kids) ==
    [type |-> type, full |-> Zero4, container |-> TRUE, kids |-> kids, payload |-> <<>>]

\* AP4_MetaData::Value::Type (symbolic).
TYPE_STRING_UTF_8 == "utf8"
TYPE_JPEG == "jpeg"
TYPE_GIF == "gif"

\* Type indicator written in the data atom for a value type.
TypeCode(valueType) ==
    CASE valueType = TYPE_STRING_UTF_8 -> 1
      [] valueType = TYPE_JPEG -> 13
      [] valueType = TYPE_GIF -> 14

\* new AP4_DataAtom(value): type indicator, locale, raw value bytes.
DataAtom(valueType, bytes) ==
    Leaf(AP4_ATOM_TYPE_DATA, U32(TypeCode(valueType)) \o Zero4 \o bytes)

\* new AP4_HdlrAtom(AP4_HANDLER_TYPE_MDIR, ""): version/flags, predefined,
\* handler type, 12 reserved bytes, the empty name and its terminator.
HdlrAtom ==
    Leaf(AP4_ATOM_TYPE_HDLR,
         Zero4 \o Zero4 \o AP4_HANDLER_TYPE_MDIR \o Zero4 \o Zero4 \o Zero4 \o <<0>>)

RECURSIVE Serialize(_)
RECURSIVE SerializeAll(_)
\* Children of a container written in order.
SerializeAll(kids) ==
    IF kids = <<>> THEN <<>> ELSE Serialize(Head(kids)) \o SerializeAll(Tail(kids))

\* Bytes after the 8-byte header of an atom.
AtomBody(a) == a.full \o (IF a.container THEN SerializeAll(a.kids) ELSE a.payload)

\* atom->Write(stream): size recomputed from the content, type, body.
Serialize(a) == U32(8 + Len(AtomBody(a))) \o a.type \o AtomBody(a)

\* Which parsed atoms are containers: the metadata path, and every child of ilst.
IsContainerType(type, parent) ==
    \/ type \in {AP4_ATOM_TYPE_MOOV, AP4_ATOM_TYPE_UDTA, AP4_ATOM_TYPE_META, AP4_ATOM_TYPE_ILST}
    \/ parent = AP4_ATOM_TYPE_ILST

RECURSIVE ParseAtoms(_, _)
\* The atoms of a container body (32-bit sizes); parsing stops at the first
\* atom whose header or extent does not fit.
ParseAtoms(bytes, parent) ==
    IF Len(bytes) < 8 THEN <<>>
    ELSE LET n == bytes[2] * 65536 + bytes[3] * 256 + bytes[4]
             type == SubSeq(bytes, 5, 8)
         IN IF bytes[1] # 0 \/ n < 8 \/ n > Len(bytes) THEN <<>>
            ELSE LET body == SubSeq(bytes, 9, n)
                     cont == IsContainerType(type, parent)
                     fl == IF cont /\ type = AP4_ATOM_TYPE_META /\ Len(body) >= 4 THEN 4 ELSE 0
                     atom == [type |-> type,
                              full |-> SubSeq(body, 1, fl),
                              container |-> cont,
                              kids |-> IF cont THEN ParseAtoms(SubSeq(body, fl + 1, Len(body)), type)
                                       ELSE <<>>,
                              payload |-> IF cont THEN <<>> ELSE body]
                 IN <<atom>> \o ParseAtoms(SubSeq(bytes, n + 1, Len(bytes)), parent)

RECURSIVE FindMovie(_, _)
\* AP4_File file(stream, true); file.GetMovie(): walk the top-level atoms from
\* offset p; <<moov tree>> for the first moov atom lying within the stream,
\* <<>> (null) when the walk fails first or reaches the end.
FindMovie(data, p) ==
    IF p + 8 > Len(data) THEN <<>>
    ELSE LET small == SubSeq(data, p + 1, p + 4)
             type == SubSeq(data, p + 5, p + 8)
             hdr == IF small = U32(1) THEN 16 ELSE 8
         IN IF p + hdr > Len(data) THEN <<>>
            ELSE LET size == IF small = U32(1) THEN SubSeq(data, p + 9, p + 16)
                             ELSE IF small = U32(0) THEN U64(Len(data) - p)
                             ELSE Widen(small)
                 IN IF ~IsSmall(size) \/ ToNat(size) < hdr \/ p + ToNat(size) > Len(data)
                    THEN <<>>
                    ELSE IF type = AP4_ATOM_TYPE_MOOV
                         THEN <<Container(AP4_ATOM_TYPE_MOOV,
                                          ParseAtoms(SubSeq(data, p + hdr + 1, p + ToNat(size)),
                                                     AP4_ATOM_TYPE_MOOV))>>
                         ELSE FindMovie(data, p + ToNat(size))

\* parent->FindChild(type): index of the first child of that type, 0 if none.
FindChild(parent, type) ==
    IF \E i \in 1..Len(parent.kids) : parent.kids[i].type = type
    THEN CHOOSE i \in 1..Len(parent.kids) :
             /\ parent.kids[i].type = type
             /\ \A j \in 1..(i - 1) : parent.kids[j].type # type
    ELSE 0

\* parent->AddChild(child): append.
AddChild(parent, child) == [parent EXCEPT !.kids = Append(@, child)]

\* parent->DeleteChild(type): remove the first child of that type, if any.
DeleteChild(parent, type) ==
    LET i == FindChild(parent, type)
    IN IF i = 0 THEN parent
       ELSE [parent EXCEPT !.kids = SubSeq(@, 1, i - 1) \o SubSeq(@, i + 1, Len(@))]

\* Replace child i of parent.
SetChild(parent, i, child) == [parent EXCEPT !.kids[i] = child]

\* ------------------------------------------------------- metadata tree editing
\* A JNI string argument: null, or its (possibly empty) UTF-8 bytes.
NullStr == [null |-> TRUE, chars |-> <<>>]
Str(chars) == [null |-> FALSE, chars |-> chars]

\* Variant of addTextMetadata in which an explicit empty string clears the tag.
addTextMetadataClearsOnEmpty(ilst, type, text) ==
    IF text.null THEN ilst
    ELSE IF Len(text.chars) = 0 THEN DeleteChild(ilst, type)
    ELSE AddChild(DeleteChild(ilst, type),
                  Container(type, <<DataAtom(TYPE_STRING_UTF_8, text.chars)>>))

\* addTextMetadata(ilst, type, text)
addTextMetadata(ilst, type, text) ==
    IF text.null \/ Len(text.chars) = 0 THEN ilst
    ELSE AddChild(DeleteChild(ilst, type),
                  Container(type, <<DataAtom(TYPE_STRING_UTF_8, text.chars)>>))

\* Variant of DetectValueType without the length guard.
DetectValueTypeNoLength(artwork) ==
    IF /\ Len(artwork) >= 4
       /\ artwork[1] = 137 /\ artwork[2] = 80 /\ artwork[3] = 78 /\ artwork[4] = 71
    THEN TYPE_GIF
    ELSE TYPE_JPEG

\* Detect image type: PNG signature prefix on a buffer of at least 8 bytes.
DetectValueType(artwork) ==
    IF /\ Len(artwork) >= 8
       /\ artwork[1] = 137 /\ artwork[2] = 80 /\ artwork[3] = 78 /\ artwork[4] = 71
    THEN TYPE_GIF
    ELSE TYPE_JPEG

\* Add cover art if provided.
addCoverArt(ilst, art) ==
    IF art.null \/ Len(art.chars) = 0 THEN ilst
    ELSE AddChild(DeleteChild(ilst, AP4_ATOM_TYPE_COVR),
                  Container(AP4_ATOM_TYPE_COVR,
                            <<DataAtom(DetectValueType(art.chars), art.chars)>>))

\* The four text upserts and the cover art, in the order of the source.
EditIlst(ilst, a) ==
    addCoverArt(
        addTextMetadata(
            addTextMetadata(
                addTextMetadata(
                    addTextMetadata(ilst, AP4_ATOM_TYPE_cNAM, a.title),
                    AP4_ATOM_TYPE_cART, a.artist),
                AP4_ATOM_TYPE_cALB, a.album),
            AP4_ATOM_TYPE_cDAY, a.year),
        a.artwork)

\* Find-or-create of one link of the udta -> meta -> ilst path.
EnsureChild(parent, type, fresh) ==
    IF FindChild(parent, type) = 0 THEN AddChild(parent, fresh) ELSE parent

\* The ilst atom reached from moov after the path was ensured.
EnsurePath(moov) ==
    LET m1 == EnsureChild(moov, AP4_ATOM_TYPE_UDTA, Container(AP4_ATOM_TYPE_UDTA, <<>>))
        iu == FindChild(m1, AP4_ATOM_TYPE_UDTA)
        u1 == EnsureChild(m1.kids[iu], AP4_ATOM_TYPE_META,
                          FullContainer(AP4_ATOM_TYPE_META, <<HdlrAtom>>))
        im == FindChild(u1, AP4_ATOM_TYPE_META)
        e1 == EnsureChild(u1.kids[im], AP4_ATOM_TYPE_ILST, Container(AP4_ATOM_TYPE_ILST, <<>>))
    IN SetChild(m1, iu, SetChild(u1, im, e1))

\* The ilst atom of a moov tree whose path exists.
IlstOf(moov) ==
    LET u == moov.kids[FindChild(moov, AP4_ATOM_TYPE_UDTA)]
        e == u.kids[FindChild(u, AP4_ATOM_TYPE_META)]
    IN e.kids[FindChild(e, AP4_ATOM_TYPE_ILST)]

\* moov with its ilst atom replaced.
WithIlst(moov, ilst) ==
    LET iu == FindChild(moov, AP4_ATOM_TYPE_UDTA)
        u == moov.kids[iu]
        im == FindChild(u, AP4_ATOM_TYPE_META)
        e == u.kids[im]
    IN SetChild(moov, iu, SetChild(u, im, SetChild(e, FindChild(e, AP4_ATOM_TYPE_ILST), ilst)))

\* Build the metadata structure and upsert the tags (lines 149-204).
EditMoov(moov, a) ==
    LET m == EnsurePath(moov)
    IN WithIlst(m, EditIlst(IlstOf(m), a))

\* ---------------------------------------------------------------- input files
\* A top-level box with a 32-bit size field.
Box(type, payload) == U32(8 + Len(payload)) \o type \o payload

\* A top-level box with an explicit size field and extended size.
RawBox(sizeField, type, rest) == sizeField \o type \o rest

TagBox(type, valueType, bytes) == Container(type, <<DataAtom(valueType, bytes)>>)

MetaTree(tags) ==
    Container(AP4_ATOM_TYPE_UDTA,
        <<FullContainer(AP4_ATOM_TYPE_META,
            <<HdlrAtom, Container(AP4_ATOM_TYPE_ILST, tags)>>)>>)

Mvhd == Leaf(TYPE_MVHD, Zero4)
MoovPlain == Container(AP4_ATOM_TYPE_MOOV, <<Mvhd>>)
MoovTagged ==
    Container(AP4_ATOM_TYPE_MOOV,
        <<Mvhd, MetaTree(<<TagBox(AP4_ATOM_TYPE_cNAM, TYPE_STRING_UTF_8, <<88>>),
                           TagBox(AP4_ATOM_TYPE_COVR, TYPE_JPEG, <<255, 216>>),
                           TagBox(AP4_ATOM_TYPE_cART, TYPE_STRING_UTF_8, <<90>>)>>)>>)
MoovDup ==
    Container(AP4_ATOM_TYPE_MOOV,
        <<Mvhd, MetaTree(<<TagBox(AP4_ATOM_TYPE_cNAM, TYPE_STRING_UTF_8, <<88>>),
                           TagBox(AP4_ATOM_TYPE_cNAM, TYPE_STRING_UTF_8, <<89>>)>>)>>)
MoovUdta == Container(AP4_ATOM_TYPE_MOOV, <<Mvhd, Container(AP4_ATOM_TYPE_UDTA, <<>>)>>)

Ftyp == Box(TYPE_FTYP, <<105, 115, 111, 109>>)
Mdat == Box(TYPE_MDAT, <<1, 2, 3, 4, 5, 6, 7, 8, 9, 10>>)

FilePlain == Ftyp \o Serialize(MoovPlain) \o Mdat
FileTagged == Ftyp \o Serialize(MoovTagged) \o Mdat
FileDup == Serialize(MoovDup) \o Mdat
FileUdta == Serialize(MoovUdta) \o Mdat
FileMoovLast == Mdat \o Serialize(MoovPlain)
\* Fragmented stream: no moov.
FileNoMoov == Ftyp \o Box(TYPE_MOOF, Zero4) \o Mdat
FileEmpty == <<>>
\* The last box declares 14 bytes more than the stream holds.
FileTruncated == Ftyp \o Serialize(MoovPlain) \o RawBox(U32(32), TYPE_MDAT, <<1, 2, 3, 4, 5, 6, 7, 8, 9, 10>>)
\* moov declares more bytes than the stream holds.
FileMoovTruncated == Ftyp \o RawBox(U32(40), AP4_ATOM_TYPE_MOOV, Serialize(Mvhd))
\* 64-bit size that fits the stream.
FileExt == Serialize(MoovPlain) \o RawBox(U32(1), TYPE_MDAT, U64(20) \o <<1, 2, 3, 4>>)
\* 64-bit size 5,000,000,000 = 0x000000012A05F200.
FileExt5G == Serialize(MoovPlain) \o RawBox(U32(1), TYPE_MDAT, <<0, 0, 0, 1, 42, 5, 242, 0>> \o <<1, 2, 3, 4>>)
\* 64-bit size 0.
FileExtZero == Serialize(MoovPlain) \o RawBox(U32(1), TYPE_FREE, U64(0))
\* 64-bit size 2^64 - 4 after an 8-byte box.
FileWrap == Box(TYPE_FREE, <<>>) \o RawBox(U32(1), TYPE_FREE, <<255, 255, 255, 255, 255, 255, 255, 252>>)
\* Size field 0: the box extends to the end of the stream.
FileToEnd == Serialize(MoovPlain) \o RawBox(U32(0), TYPE_MDAT, <<1, 2, 3, 4, 5, 6>>)
\* Three stray bytes after the last box.
FileTrailing == Serialize(MoovTagged) \o Mdat \o <<7, 7, 7>>
\* Two moov boxes.
FileTwoMoov == Serialize(MoovUdta) \o Serialize(MoovPlain) \o Mdat
\* A size field of 4, smaller than the header it is part of.
FileSmallSize == Serialize(MoovPlain) \o RawBox(U32(4), TYPE_FREE, <<>>) \o Mdat

InputFiles ==
    {FilePlain, FileTagged, FileDup, FileUdta, FileMoovLast, FileNoMoov, FileEmpty,
     FileTruncated, FileMoovTruncated, FileExt, FileExt5G, FileExtZero, FileWrap,
     FileToEnd, FileTrailing, FileTwoMoov, FileSmallSize}

\* ------------------------------------------------------------------- arguments
PNG8 == <<137, 80, 78, 71, 13, 10, 26, 10>>
PNG4 == <<137, 80, 78, 71>>
PNG7 == <<137, 80, 78, 71, 13, 10, 26>>
NearPNG8 == <<137, 80, 78, 70, 13, 10, 26, 10>>
JPEG8 == <<255, 216, 255, 224, 0, 16, 74, 70>>
JPEG2 == <<255, 216>>

\* jbyteArray artworkData: null, empty, or image bytes.
ArtChoices ==
    {NullStr, Str(<<>>), Str(PNG8), Str(PNG4), Str(PNG7), Str(NearPNG8), Str(JPEG8), Str(JPEG2)}

Args(t, r, l, y, w) == [title |-> t, artist |-> r, album |-> l, year |-> y, artwork |-> w]

NoArgs == Args(NullStr, NullStr, NullStr, NullStr, NullStr)

\* Arguments of the first embedMetadata call.
ArgChoices ==
    {Args(t, r, l, y, w) :
        t \in {NullStr, Str(<<>>), Str(<<65>>)},
        r \in {NullStr, Str(<<>>), Str(<<82>>)},
        l \in {NullStr, Str(<<76>>)},
        y \in {NullStr, Str(<<50>>)},
        w \in {NullStr, Str(PNG8)}}
    \cup {Args(NullStr, NullStr, NullStr, NullStr, w) : w \in ArtChoices}

\* Arguments of a later embedMetadata call on the previous call's output.
RerunArgs ==
    {Args(Str(<<66>>), Str(<<83>>), Str(<<77>>), Str(<<51>>), Str(JPEG8)),
     Args(Str(<<66>>), NullStr, NullStr, NullStr, NullStr),
     Args(Str(<<>>), NullStr, NullStr, NullStr, NullStr),
     NoArgs}

\* Contents of the output path before the call.
PriorOut == <<9, 9>>

\* ------------------------------------------------------------------- the state
VARIABLES
    op,          \* "embed" or "defragment": the entry point called
    pc,          \* position in the entry point
    run,         \* number of the call in a chain of calls
    faults,      \* input reads failed by the environment so far
    inFile,      \* bytes at the input path
    args,        \* artwork, title, artist, album, year
    inOpen,      \* successful opens of the input stream in this call
    inRel,       \* inputStream->Release() calls in this call
    outOpen,     \* successful opens of the output stream in this call
    outRel,      \* outputStream->Release() calls in this call
    outTouched,  \* the output path was opened for writing in this call
    outFile,     \* bytes at the output path
    fileSize,    \* fileSize
    pos,         \* pos of the scan loop (AP4_Position, 64 bits)
    atoms,       \* std::vector<AtomInfo> atoms
    moovSize,    \* moovSize (moovPos is assigned and never read)
    movie,       \* <<>> (null) or <<the moov tree>>, edited in place
    ilst0,       \* children of ilst before the upserts of this call
    atomIdx,     \* index of the copy loop in atoms
    remaining,   \* remaining of the raw copy (64 bits)
    inPos,       \* read position of the input stream during the copies
    copyFailed,  \* a read failed during a copy in this call
    success      \* success

vars ==
    <<op, pc, run, faults, inFile, args, inOpen, inRel, outOpen, outRel, outTouched,
      outFile, fileSize, pos, atoms, moovSize, movie, ilst0, atomIdx, remaining, inPos,
      copyFailed, success>>

handles == <<inOpen, inRel, outOpen, outRel>>
call == <<op, run, inFile, args>>
scanv == <<fileSize, pos, atoms, moovSize>>
editv == <<movie, ilst0>>
copyv == <<atomIdx, remaining, inPos, copyFailed>>
outv == <<outTouched, outFile>>

\* State at entry of a call.
Entry ==
    /\ pc = "start"
    /\ inOpen = 0 /\ inRel = 0 /\ outOpen = 0 /\ outRel = 0
    /\ outTouched = FALSE /\ outFile = PriorOut
    /\ fileSize = 0 /\ pos = U64(0) /\ atoms = <<>> /\ moovSize = U64(0)
    /\ movie = <<>> /\ ilst0 = <<>>
    /\ atomIdx = 1 /\ remaining = U64(0) /\ inPos = 0 /\ copyFailed = FALSE
    /\ success = FALSE

Init ==
    /\ op \in {"embed", "defragment"}
    /\ inFile \in InputFiles
    /\ args \in (IF op = "embed" THEN ArgChoices ELSE {NoArgs})
    /\ run = 1
    /\ faults = 0
    /\ Entry

\* Outcomes of one input read: it may fail with an I/O error while the
\* environment's fault budget lasts.
FaultChoices == IF faults < MaxFaults THEN {FALSE, TRUE} ELSE {FALSE}

\* --------------------------------------------------------------- embedMetadata
\* The size of the atom whose header starts at offset p (lines 105-111).
AtomSizeAt(data, p) ==
    LET atomSizeSmall == SubSeq(data, p + 1, p + 4)
    IN IF atomSizeSmall = U32(1) THEN SubSeq(data, p + 9, p + 16)
       ELSE IF atomSizeSmall = U32(0) THEN U64(Len(data) - p)
       ELSE Widen(atomSizeSmall)

\* Whether the header reads of one scan iteration succeed at offset p: two
\* ReadUI32, and ReadUI64 when the size field is 1.
HeaderReadable(data, p) ==
    /\ p + 8 <= Len(data)
    /\ SubSeq(data, p + 1, p + 4) = U32(1) => p + 16 <= Len(data)

\* AP4_FileByteStream::Create(input, STREAM_MODE_READ, inputStream), GetSize.
EOpenInput ==
    /\ pc = "start" /\ op = "embed"
    /\ \E ok \in BOOLEAN :
        IF ok
        THEN /\ inOpen' = inOpen + 1
             /\ fileSize' = Len(inFile)
             /\ pc' = "scan"
             /\ UNCHANGED <<inRel, outOpen, outRel, pos, atoms, moovSize>>
        ELSE /\ pc' = "done"
             /\ UNCHANGED <<handles, scanv>>
    /\ UNCHANGED <<call, faults, editv, copyv, outv, success>>

\* One iteration of the scan loop (lines 98-121).
ScanStep ==
    /\ pc = "scan"
    /\ U64Less(pos, U64(fileSize))
    /\ Len(atoms) < MaxAtoms
    /\ \E fail \in FaultChoices :
        LET p == ToNat(pos)
            atomType == SubSeq(inFile, p + 5, p + 8)
            atomSize == AtomSizeAt(inFile, p)
        IN /\ faults' = faults + (IF fail THEN 1 ELSE 0)
           /\ IF ~fail /\ HeaderReadable(inFile, p)
              THEN /\ atoms' = Append(atoms, [type |-> atomType, pos |-> pos, size |-> atomSize])
                   /\ moovSize' = IF atomType = AP4_ATOM_TYPE_MOOV THEN atomSize ELSE moovSize
                   /\ pos' = U64Add(pos, atomSize)
                   /\ pc' = "scan"
              ELSE /\ pc' = "check"
                   /\ UNCHANGED <<atoms, moovSize, pos>>
    /\ UNCHANGED <<call, handles, fileSize, editv, copyv, outv, success>>

\* The scan loop ends: pos >= fileSize.
ScanEnd ==
    /\ pc = "scan"
    /\ ~U64Less(pos, U64(fileSize))
    /\ pc' = "check"
    /\ UNCHANGED <<call, faults, handles, scanv, editv, copyv, outv, success>>

\* Variant of CheckMoov without the missing-moov exit.
CheckMoovNoExit ==
    /\ pc = "check"
    /\ pc' = "parse"
    /\ UNCHANGED <<call, faults, handles, scanv, editv, copyv, outv, success>>

\* if (moovSize == 0): missing moov atom (lines 125-129).
CheckMoov ==
    /\ pc = "check"
    /\ IF moovSize = U64(0)
       THEN /\ inRel' = inRel + 1
            /\ pc' = "done"
       ELSE /\ pc' = "parse"
            /\ UNCHANGED inRel
    /\ UNCHANGED <<call, faults, inOpen, outOpen, outRel, scanv, editv, copyv, outv, success>>

\* Parse the file, build the metadata structure, upsert the tags (lines
\* 132-204).  GetMoovAtom() of a movie parsed from a stream is its moov atom,
\* so the "No moov atom found" exit is taken with the "No movie" one.
ParseEdit ==
    /\ pc = "parse"
    /\ LET mv == FindMovie(inFile, 0)
       IN IF mv = <<>>
          THEN /\ inRel' = inRel + 1
               /\ pc' = "done"
               /\ UNCHANGED editv
          ELSE /\ movie' = <<EditMoov(mv[1], args)>>
               /\ ilst0' = IlstOf(EnsurePath(mv[1])).kids
               /\ pc' = "openout"
               /\ UNCHANGED inRel
    /\ UNCHANGED <<call, faults, inOpen, outOpen, outRel, scanv, copyv, outv, success>>

\* Variant of EOpenOutput that does not release the input stream when the
\* output cannot be opened.
EOpenOutputLeak ==
    /\ pc = "openout"
    /\ \E ok \in BOOLEAN :
        IF ok
        THEN /\ outOpen' = outOpen + 1
             /\ outTouched' = TRUE
             /\ outFile' = <<>>
             /\ pc' = "copy"
        ELSE /\ pc' = "done"
             /\ UNCHANGED <<outOpen, outv>>
    /\ UNCHANGED <<call, faults, inOpen, inRel, outRel, scanv, editv, copyv, success>>

\* AP4_FileByteStream::Create(output, STREAM_MODE_WRITE, outputStream).
EOpenOutput ==
    /\ pc = "openout"
    /\ \E ok \in BOOLEAN :
        IF ok
        THEN /\ outOpen' = outOpen + 1
             /\ outTouched' = TRUE
             /\ outFile' = <<>>
             /\ pc' = "copy"
             /\ UNCHANGED inRel
        ELSE /\ inRel' = inRel + 1
             /\ pc' = "done"
             /\ UNCHANGED <<outOpen, outv>>
    /\ UNCHANGED <<call, faults, inOpen, outRel, scanv, editv, copyv, success>>

\* The copy loop takes the next atom: the modified moov is written, any other
\* atom is sought and its raw copy starts (lines 220-230).
CopyNext ==
    /\ pc = "copy"
    /\ atomIdx <= Len(atoms)
    /\ LET atom == atoms[atomIdx]
       IN IF atom.type = AP4_ATOM_TYPE_MOOV
          THEN /\ outFile' = outFile \o Serialize(movie[1])
               /\ atomIdx' = atomIdx + 1
               /\ UNCHANGED <<pc, remaining, inPos>>
          ELSE IF atom.size = U64(0)
          THEN /\ atomIdx' = atomIdx + 1
               /\ UNCHANGED <<pc, remaining, inPos, outFile>>
          ELSE /\ inPos' = ToNat(atom.pos)
               /\ remaining' = atom.size
               /\ pc' = "chunk"
               /\ UNCHANGED <<atomIdx, outFile>>
    /\ UNCHANGED <<call, faults, handles, scanv, editv, copyFailed, outTouched, success>>

\* One chunk of the raw copy (lines 231-241): a failed read breaks out of the
\* chunk loop only, and the copy loop goes on with the next atom.
CopyChunk ==
    /\ pc = "chunk"
    /\ \E fail \in FaultChoices :
        LET toRead == IF U64Less(U64(bufferSize), remaining) THEN bufferSize
                      ELSE ToNat(remaining)
            left == U64Sub(remaining, U64(toRead))
        IN /\ faults' = faults + (IF fail THEN 1 ELSE 0)
           /\ IF ~fail /\ inPos + toRead <= Len(inFile)
              THEN /\ outFile' = outFile \o SubSeq(inFile, inPos + 1, inPos + toRead)
                   /\ inPos' = inPos + toRead
                   /\ remaining' = left
                   /\ atomIdx' = IF left = U64(0) THEN atomIdx + 1 ELSE atomIdx
                   /\ pc' = IF left = U64(0) THEN "copy" ELSE "chunk"
                   /\ UNCHANGED copyFailed
              ELSE /\ copyFailed' = TRUE
                   /\ atomIdx' = atomIdx + 1
                   /\ pc' = "copy"
                   /\ UNCHANGED <<outFile, inPos, remaining>>
    /\ UNCHANGED <<call, handles, scanv, editv, outTouched, success>>

\* After the copy loop: both streams released, success = true (lines 245-252).
EFinish ==
    /\ pc = "copy"
    /\ atomIdx > Len(atoms)
    /\ outRel' = outRel + 1
    /\ inRel' = inRel + 1
    /\ success' = TRUE
    /\ pc' = "done"
    /\ UNCHANGED <<call, faults, inOpen, outOpen, scanv, editv, copyv, outv>>

\* A further embedMetadata call reads the output of a call that returned true
\* with all its copies completed.
Again ==
    /\ pc = "done" /\ op = "embed" /\ success /\ ~copyFailed
    /\ run < MaxRuns
    /\ inFile' = outFile
    /\ args' \in RerunArgs
    /\ run' = run + 1
    /\ pc' = "start"
    /\ inOpen' = 0 /\ inRel' = 0 /\ outOpen' = 0 /\ outRel' = 0
    /\ outTouched' = FALSE /\ outFile' = PriorOut
    /\ fileSize' = 0 /\ pos' = U64(0) /\ atoms' = <<>> /\ moovSize' = U64(0)
    /\ movie' = <<>> /\ ilst0' = <<>>
    /\ atomIdx' = 1 /\ remaining' = U64(0) /\ inPos' = 0 /\ copyFailed' = FALSE
    /\ success' = FALSE
    /\ UNCHANGED <<op, faults>>

\* -------------------------------------------------------------- defragmentFile
\* AP4_FileByteStream::Create(input, STREAM_MODE_READ, inputStream).
DOpenInput ==
    /\ pc = "start" /\ op = "defragment"
    /\ \E ok \in BOOLEAN :
        IF ok
        THEN /\ inOpen' = inOpen + 1
             /\ pc' = "dopenout"
        ELSE /\ pc' = "done"
             /\ UNCHANGED inOpen
    /\ UNCHANGED <<call, faults, inRel, outOpen, outRel, scanv, editv, copyv, outv, success>>

\* AP4_FileByteStream::Create(output, STREAM_MODE_WRITE, outputStream).
DOpenOutput ==
    /\ pc = "dopenout"
    /\ \E ok \in BOOLEAN :
        IF ok
        THEN /\ outOpen' = outOpen + 1
             /\ outTouched' = TRUE
             /\ outFile' = <<>>
             /\ pc' = "dparse"
             /\ UNCHANGED inRel
        ELSE /\ inRel' = inRel + 1
             /\ pc' = "done"
             /\ UNCHANGED <<outOpen, outv>>
    /\ UNCHANGED <<call, faults, inOpen, outRel, scanv, editv, copyv, success>>

\* AP4_File file(*inputStream, true); if (file.GetMovie()) (lines 304-310).
DParse ==
    /\ pc = "dparse"
    /\ IF FindMovie(inFile, 0) # <<>>
       THEN /\ inPos' = 0
            /\ fileSize' = Len(inFile)
            /\ pc' = "dcopy"
       ELSE /\ pc' = "drelease"
            /\ UNCHANGED <<inPos, fileSize>>
    /\ UNCHANGED <<call, faults, handles, pos, atoms, moovSize, editv, atomIdx, remaining,
                   copyFailed, outv, success>>

\* One iteration of the copy loop (lines 314-320); a failed read breaks out
\* of the loop, and success = true follows the loop on either way out.
DCopyChunk ==
    /\ pc = "dcopy"
    /\ fileSize > 0
    /\ \E fail \in FaultChoices :
        LET toRead == IF fileSize > defragBufferSize THEN defragBufferSize ELSE fileSize
        IN /\ faults' = faults + (IF fail THEN 1 ELSE 0)
           /\ IF ~fail /\ inPos + toRead <= Len(inFile)
              THEN /\ outFile' = outFile \o SubSeq(inFile, inPos + 1, inPos + toRead)
                   /\ inPos' = inPos + toRead
                   /\ fileSize' = fileSize - toRead
                   /\ UNCHANGED <<pc, copyFailed, success>>
              ELSE /\ copyFailed' = TRUE
                   /\ success' = TRUE
                   /\ pc' = "drelease"
                   /\ UNCHANGED <<outFile, inPos, fileSize>>
    /\ UNCHANGED <<call, handles, pos, atoms, moovSize, editv, atomIdx, remaining, outTouched>>

\* The copy loop ends with fileSize = 0; success = true (line 321).
DCopyEnd ==
    /\ pc = "dcopy"
    /\ fileSize = 0
    /\ success' = TRUE
    /\ pc' = "drelease"
    /\ UNCHANGED <<call, faults, handles, scanv, editv, copyv, outv>>

\* outputStream->Release(); inputStream->Release() (lines 329-330).
DRelease ==
    /\ pc = "drelease"
    /\ outRel' = outRel + 1
    /\ inRel' = inRel + 1
    /\ pc' = "done"
    /\ UNCHANGED <<call, faults, inOpen, outOpen, scanv, editv, copyv, outv, success>>

Next ==
    \/ EOpenInput \/ ScanStep \/ ScanEnd \/ CheckMoov \/ ParseEdit \/ EOpenOutput
    \/ CopyNext \/ CopyChunk \/ EFinish \/ Again
    \/ DOpenInput \/ DOpenOutput \/ DParse \/ DCopyChunk \/ DCopyEnd \/ DRelease

Spec == Init /\ [][Next]_vars

\* The calls in which no read fails with an I/O error: a read fails only at
\* the end of the stream.
InitNoIOError ==
    /\ op \in {"embed", "defragment"}
    /\ inFile \in InputFiles
    /\ args \in (IF op = "embed" THEN ArgChoices ELSE {NoArgs})
    /\ run = 1
    /\ faults = MaxFaults
    /\ Entry

SpecNoIOError == InitNoIOError /\ [][Next]_vars

\* ---------------------------------------------------------------------- claims
\* TRUE iff a + b does not fit 64 bits.
U64AddOverflows(a, b) == a[1] + b[1] + Carry(a, b, 1) >= 256

HasMoovEntry(as) == \E i \in 1..Len(as) : as[i].type = AP4_ATOM_TYPE_MOOV

\* The children of the given type, in order.
OfType(kids, type) == SelectSeq(kids, LAMBDA k : k.type = type)

\* The children of the edited ilst.
IlstNow == IlstOf(movie[1]).kids

\* The upserts of this call have been applied.
Edited == op = "embed" /\ movie # <<>>

Absent(text) == text.null \/ text.chars = <<>>

\* The argument that feeds each tag type.
ArgOf(type) ==
    CASE type = AP4_ATOM_TYPE_cNAM -> args.title
      [] type = AP4_ATOM_TYPE_cART -> args.artist
      [] type = AP4_ATOM_TYPE_cALB -> args.album
      [] type = AP4_ATOM_TYPE_cDAY -> args.year
      [] type = AP4_ATOM_TYPE_COVR -> args.artwork

TextTypes == {AP4_ATOM_TYPE_cNAM, AP4_ATOM_TYPE_cART, AP4_ATOM_TYPE_cALB, AP4_ATOM_TYPE_cDAY}
TagTypes == TextTypes \cup {AP4_ATOM_TYPE_COVR}

\* C1: in embed_metadata a read failure while raw-copying a non-moov box
\* aborts the operation: no call in which a copy read failed returns true.
C1_ReadFailureReturnsFalse ==
    (op = "embed" /\ pc = "done" /\ copyFailed) => ~success

\* C2 (as stated): with no artwork and every text field absent the item list
\* is untouched; with an explicit empty string for one text field (the other
\* arguments absent) that field's tag box is removed and the other boxes are
\* untouched.
C2_EmptyStringRemovesTag ==
    Edited =>
        /\ (\A t \in TagTypes : ArgOf(t).null) => IlstNow = ilst0
        /\ \A t \in TextTypes :
              (/\ ArgOf(t) = Str(<<>>)
               /\ \A u \in TagTypes \ {t} : ArgOf(u).null)
              => /\ OfType(IlstNow, t) = <<>>
                 /\ IlstNow = SelectSeq(ilst0, LAMBDA k : k.type # t)

\* C2 (amended): an absent argument and an explicit empty string both leave
\* the tag boxes of that type untouched; when every argument is absent or
\* empty the whole item list is untouched.
C2_EmptyOrAbsentKeepsTag ==
    Edited =>
        /\ \A t \in TagTypes : Absent(ArgOf(t)) => OfType(IlstNow, t) = OfType(ilst0, t)
        /\ (\A t \in TagTypes : Absent(ArgOf(t))) => IlstNow = ilst0

\* C2 witness: a call given the empty string as title on a file that holds a
\* title tag has finished with success.
C2_Witness ==
    /\ Edited /\ pc = "done" /\ success
    /\ args.title = Str(<<>>)
    /\ OfType(ilst0, AP4_ATOM_TYPE_cNAM) # <<>>

\* C3: after the upserts, every tag type given a non-empty value has exactly
\* one box under the item list, and it holds the value just supplied,
\* whatever the item list held before.
C3_OneBoxPerUpsertedTag ==
    Edited =>
        \A t \in TagTypes :
            ~Absent(ArgOf(t)) =>
                /\ Len(OfType(IlstNow, t)) = 1
                /\ LET payload == OfType(IlstNow, t)[1].kids[1].payload
                   IN SubSeq(payload, 9, Len(payload)) = ArgOf(t).chars

\* What the rewrite must hold for one scanned entry: the serialized moov,
\* or the entry's bytes in the input for its declared size.
BoxInStream(a) ==
    \/ a.type = AP4_ATOM_TYPE_MOOV
    \/ /\ IsSmall(a.size) /\ IsSmall(a.pos)
       /\ ToNat(a.pos) + ToNat(a.size) <= Len(inFile)

BoxBytes(a) ==
    IF a.type = AP4_ATOM_TYPE_MOOV THEN Serialize(movie[1])
    ELSE SubSeq(inFile, ToNat(a.pos) + 1, ToNat(a.pos) + ToNat(a.size))

RECURSIVE Rewritten(_)
Rewritten(as) == IF as = <<>> THEN <<>> ELSE BoxBytes(Head(as)) \o Rewritten(Tail(as))

\* C4: when embed_metadata returns true the output holds, in the order of the
\* scanned index, every non-moov box's input bytes for its full declared size
\* and the edited moov at the position of the moov entry.
C4_OutputIsRewrittenInput ==
    (op = "embed" /\ pc = "done" /\ success) =>
        /\ \A i \in 1..Len(atoms) : BoxInStream(atoms[i])
        /\ outFile = Rewritten(atoms)

\* C5: the output is opened only after the scan found a moov box and the
\* parsed movie was obtained; a call whose scan found no moov box returns
\* false with the output path never opened, created or written.
C5_NoMoovNoOutput ==
    op = "embed" =>
        /\ (outTouched \/ outOpen > 0 \/ pc \in {"copy", "chunk"})
              => (HasMoovEntry(atoms) /\ movie # <<>>)
        /\ (pc = "done" /\ ~HasMoovEntry(atoms))
              => (~success /\ ~outTouched /\ outOpen = 0 /\ outFile = PriorOut)

\* C5 witness: a call whose scan recorded entries, none of them moov, has
\* returned.
C5_Witness ==
    /\ op = "embed" /\ pc = "done"
    /\ inOpen = 1 /\ atoms # <<>> /\ ~HasMoovEntry(atoms)

\* C6: defragment returns true only when the input contains a moov box and
\* the output is an unchanged copy of the input; with no moov box it
\* returns false.
C6_DefragmentCopiesOrFails ==
    (op = "defragment" /\ pc = "done") =>
        /\ success => (FindMovie(inFile, 0) # <<>> /\ outFile = inFile)
        /\ FindMovie(inFile, 0) = <<>> => ~success

\* The cover-art data box written by this call: the last child of ilst.
CovrCode == SubSeq(IlstNow[Len(IlstNow)].kids[1].payload, 1, 4)

\* C7 (as stated): a non-empty artwork whose first 4 bytes are 89 50 4E 47 is
\* tagged 14, every other one 13; only the first 4 bytes matter.
C7_PrefixAloneDecides ==
    (Edited /\ ~Absent(args.artwork)) =>
        CovrCode = IF /\ Len(args.artwork.chars) >= 4
                      /\ SubSeq(args.artwork.chars, 1, 4) = PNG4
                   THEN U32(14) ELSE U32(13)

\* C7 (amended): a non-empty artwork of at least 8 bytes whose first 4 bytes
\* are 89 50 4E 47 is tagged 14; every other one, a shorter buffer with that
\* prefix included, is tagged 13.
C7_PrefixAndLengthDecide ==
    (Edited /\ ~Absent(args.artwork)) =>
        /\ IlstNow[Len(IlstNow)].type = AP4_ATOM_TYPE_COVR
        /\ CovrCode = IF /\ Len(args.artwork.chars) >= 8
                         /\ SubSeq(args.artwork.chars, 1, 4) = PNG4
                      THEN U32(14) ELSE U32(13)

\* C7 witness: a 7-byte artwork with the PNG prefix was embedded, tagged 13.
C7_Witness ==
    /\ Edited /\ pc = "done" /\ success
    /\ args.artwork = Str(PNG7)
    /\ CovrCode = U32(13)

\* C8: every scanned entry has the size its size field determines (the
\* extended size for 1, the rest of the stream for 0, the field otherwise),
\* the first entry is at offset 0 and each next entry's offset is the
\* previous entry's offset plus its size.
C8_ScanEntries ==
    op = "embed" =>
        \A i \in 1..Len(atoms) :
            /\ IsSmall(atoms[i].pos)
            /\ LET p == ToNat(atoms[i].pos)
                   field == SubSeq(inFile, p + 1, p + 4)
               IN atoms[i].size =
                      IF field = U32(1) THEN SubSeq(inFile, p + 9, p + 16)
                      ELSE IF field = U32(0) THEN U64(Len(inFile) - p)
                      ELSE Zero4 \o field
            /\ IF i = 1 THEN atoms[i].pos = U64(0)
               ELSE /\ ~U64AddOverflows(atoms[i - 1].pos, atoms[i - 1].size)
                    /\ atoms[i].pos = U64Add(atoms[i - 1].pos, atoms[i - 1].size)

\* C9: no stream is released that was not opened, none is opened or released
\* twice, and when a call returns every stream it opened has been released.
C9_HandlesReleased ==
    /\ inOpen <= 1 /\ outOpen <= 1
    /\ inRel <= inOpen /\ outRel <= outOpen
    /\ pc = "done" => (inRel = inOpen /\ outRel = outOpen)

\* C9 witness: a call that opened both streams and had a read fail during the
\* copy has returned.
C9_Witness ==
    /\ pc = "done" /\ copyFailed
    /\ inOpen = 1 /\ outOpen = 1

\* C10: every iteration of the scan loop that records an entry advances the
\* scan offset by a strictly positive amount.
C10_ScanAdvances ==
    [][(pc = "scan" /\ pc' = "scan") => U64Less(pos, pos')]_vars

====
